---- MODULE Spec2Model ----
(***************************************************************************)
(* Model of app.py (file backend): the background worker that polls the    *)
(* upstream API every aligned 10-minute mark, rewrites agent_id.json,      *)
(* appends to diff_log.csv, and the two read-only Flask routes.            *)
(*                                                                         *)
(* Time is an absolute count of clock ticks; TicksPerSec ticks make one    *)
(* second (datetime has 1000000 microseconds per second).  A float score   *)
(* is a fixed-point number of thousandths.                                 *)
(***************************************************************************)
EXTENDS Integers, Sequences, FiniteSets, TLC

VARIABLES
    now,            \* wall clock, in ticks
    pc,             \* position of the background worker
    THRESHOLD_SCORE,\* the environment variable ("None" = unset)
    OUTPUT_FILE,    \* agent_id.json
    LOG_FILE,       \* diff_log.csv
    data,           \* fetch_and_save: parsed response of the current/last cycle
    threshold,      \* fetch_and_save: local
    existing,       \* fetch_and_save: local, dict agent_id -> score
    new_agents,     \* fetch_and_save: local, insertion-ordered dict
    total_diff,     \* fetch_and_save: local
    timestamp,      \* fetch_and_save: local
    header_needed,  \* append_log: local
    sleep_sec,      \* background_task: local
    e,              \* fetch_and_save: the exception caught, "None" when none was
    result,         \* how the last finished cycle ended: "none", "saved" or "failed"
    start,          \* history: the two files as they were when the cycle began
    previous,       \* history: response of the cycle before, when that cycle saved
    same,           \* history: the cycle got the response of the saved cycle right before it
    seen,           \* history: identifiers some snapshot held before the current cycle
    cycles,         \* number of cycles started
    http,           \* HTTP response produced by the last step, NoResponse when it served none
    final_score,    \* fetch_and_save: local score, item.get("final_score"), in thousandths
    as_int,         \* fetch_and_save: local int_score
    began,          \* history: the time at which the last cycle was started
    env_at,         \* history: THRESHOLD_SCORE when the last cycle started, and the one before
    restarted,      \* history: the process was restarted and no cycle has saved since
    kept,           \* history: identifiers of the snapshot the last saved cycle wrote
    restartLog      \* history: diff_log.csv as it was at the last start of the process

vars == <<now, pc, THRESHOLD_SCORE, OUTPUT_FILE, LOG_FILE, data, threshold,
          existing, new_agents, total_diff, timestamp, header_needed,
          sleep_sec, e, result, start, previous, same, seen, cycles, http,
          final_score, as_int, began, env_at, restarted, kept, restartLog>>

locals == <<data, threshold, existing, new_agents, total_diff>>
history == <<start, previous, same>>
rounding == <<final_score, as_int>>
restarts == <<restarted, kept, restartLog>>

-----------------------------------------------------------------------------
(* Bounds *)

TicksPerSec == 2
MaxItems == 2
MaxCycles == 2
MaxScore == 150
WindowHours == 2

-----------------------------------------------------------------------------
(* Clock arithmetic of datetime *)

MinuteTicks == 60 * TicksPerSec
HourTicks == 60 * MinuteTicks

minute(t) == (t \div MinuteTicks) % 60

\* t.replace(minute=m, second=0, microsecond=0)
replace(t, m) == (t - (t % HourTicks)) + m * MinuteTicks

\* the next whole minute taken as the next mark
sleep_until_next_minute(t) ==
    LET next_minute == minute(t) + 1
        next_time == IF next_minute >= 60
                     THEN replace(t + HourTicks, 0)
                     ELSE replace(t, next_minute)
    IN  next_time - t

\* the current mark taken as the next one
sleep_until_current_10min(t) ==
    LET next_minute == (minute(t) \div 10) * 10
        next_time == IF next_minute >= 60
                     THEN replace(t + HourTicks, 0)
                     ELSE replace(t, next_minute)
    IN  next_time - t

\* no wait when the clock is on a mark
sleep_unless_on_mark(t) ==
    LET next_minute == (minute(t) \div 10 + 1) * 10
        next_time == IF next_minute >= 60
                     THEN replace(t + HourTicks, 0)
                     ELSE replace(t, next_minute)
    IN  IF t = replace(t, (minute(t) \div 10) * 10) THEN 0 ELSE next_time - t

\* (next_time - now).total_seconds(), counted in ticks
sleep_until_next_10min(t) ==
    LET next_minute == (minute(t) \div 10 + 1) * 10
        next_time == IF next_minute >= 60
                     THEN replace(t + HourTicks, 0)
                     ELSE replace(t, next_minute)
    IN  next_time - t

\* strftime("%Y-%m-%d %H:%M:%S"): the sub-second part is dropped
strftime(t) == t \div TicksPerSec

-----------------------------------------------------------------------------
(* Values *)

Agents == {"a", "b"}
FinalScores == {5, 25}          \* 0.005 and 0.025
Env == {"None", "3", "x"}

\* int(s) of the strings the environment can hold; "x" is not a number
IntText == [s \in {"0", "3"} |-> IF s = "0" THEN 0 ELSE 3]

NonDict == [dict |-> FALSE, agent_id |-> "None", kind |-> "None", final_score |-> 0]
NoId == [dict |-> TRUE,  agent_id |-> "None", kind |-> "bad",  final_score |-> 0]
NoScore == [dict |-> TRUE,  agent_id |-> "a",    kind |-> "None", final_score |-> 0]
BadScore == [dict |-> TRUE, agent_id |-> "a",    kind |-> "bad",  final_score |-> 0]
Scored == {[dict |-> TRUE, agent_id |-> a, kind |-> "num", final_score |-> s] :
              a \in Agents, s \in FinalScores}
Items == {NonDict, NoId, NoScore, BadScore} \cup Scored

\* any JSON array of up to MaxItems elements
Responses == UNION {[1..n -> Items] : n \in 0..MaxItems}

\* the arrays the upstream sends when it works as documented (scored agents,
\* no identifier twice), and the arrays of one malformed element
Replies ==
    {r \in UNION {[1..n -> Scored] : n \in 0..Cardinality(Agents)} :
        \A i, j \in 1..Len(r) : r[i].agent_id = r[j].agent_id => i = j}
    \cup {<<x>> : x \in {NonDict, NoId, NoScore, BadScore}}

EmptyDict == [a \in {} |-> 0]
Absent == [kind |-> "absent", recs |-> <<>>]
Corrupt == [kind |-> "corrupt", recs |-> <<>>]
\* bytes that are not UTF-8, as a text cut within a multi-byte character
Undecodable == [kind |-> "undecodable", recs |-> <<>>]
NoLog == [exists |-> FALSE, lines |-> <<>>]
Header == [hdr |-> TRUE, timestamp |-> 0, total_diff |-> 0]
NoResponse == [route |-> "none", code |-> 0, timestamps |-> <<>>, diffs |-> <<>>,
               threshold_score |-> "None"]

-----------------------------------------------------------------------------
(* Pure helpers of app.py *)

\* Decimal(value).to_integral_value(ROUND_HALF_UP); value counted in thousandths
round_half_up(value) ==
    IF value >= 0 THEN (value + 500) \div 1000
                  ELSE 0 - ((500 - value) \div 1000)

\* The scores up to 2.134 with three decimals whose hundredfold is a tie
\* (x.5) in decimal and whose product as a double lies below the tie:
\* 0.145 * 100 is 14.499999999999998 and 1.005 * 100 is 100.49999999999999.
TiesBelow == {145, 285, 565, 575, 1005, 1015, 1025, 1035, 1255, 1265, 1275}

\* float(score) * 100, in thousandths: the double nearest to the product of
\* the double nearest to the score and 100.  It is off the decimal product by
\* far less than a thousandth, which matters to the rounding only where the
\* decimal product is a tie; there a product below the tie is kept one
\* thousandth below it.
times100(score) == IF score \in TiesBelow THEN score * 100 - 1 ELSE score * 100

\* load_existing_agents that never finds the file
load_existing_agents_none(file) == EmptyDict

\* lines 27-29: the exceptions of open and json.load that the except clause
\* of line 29 does not name; reading bytes that are not UTF-8 raises
\* UnicodeDecodeError, which is neither of the two
load_raises(file) == file.kind = "undecodable"

\* json.load of agent_id.json turned into a dict; {} when missing or unparseable
load_existing_agents(file) ==
    IF file.kind = "json"
    THEN LET ids == {file.recs[i].agent_id : i \in 1..Len(file.recs)}
             last(a) == CHOOSE i \in 1..Len(file.recs) :
                           /\ file.recs[i].agent_id = a
                           /\ \A j \in (i+1)..Len(file.recs) : file.recs[j].agent_id # a
         IN  [a \in ids |-> file.recs[last(a)].score]
    ELSE EmptyDict

\* new_agents[agent_id] = int_score on an insertion-ordered dict
setitem(d, agent_id, int_score) ==
    IF \E i \in 1..Len(d) : d[i].agent_id = agent_id
    THEN [i \in 1..Len(d) |-> IF d[i].agent_id = agent_id
                              THEN [agent_id |-> agent_id, score |-> int_score]
                              ELSE d[i]]
    ELSE Append(d, [agent_id |-> agent_id, score |-> int_score])

\* loop_body without the test "agent_id not in existing"
loop_body_counts_all(acc, item, old, thr) ==
    IF acc.raised THEN acc
    ELSE IF ~item.dict THEN acc
    ELSE IF item.agent_id = "None" \/ item.kind = "None" THEN acc
    ELSE IF item.kind = "bad" THEN [acc EXCEPT !.raised = TRUE]
    ELSE LET int_score == round_half_up(times100(item.final_score))
         IN  [raised |-> FALSE,
              new_agents |-> setitem(acc.new_agents, item.agent_id, int_score),
              total_diff |-> acc.total_diff + (int_score - thr)]

\* loop_body that skips on a missing agent_id only: float(None) raises
loop_body_score_unchecked(acc, item, old, thr) ==
    IF acc.raised THEN acc
    ELSE IF ~item.dict THEN acc
    ELSE IF item.agent_id = "None" THEN acc
    ELSE IF item.kind # "num" THEN [acc EXCEPT !.raised = TRUE]
    ELSE LET int_score == round_half_up(times100(item.final_score))
         IN  [raised |-> FALSE,
              new_agents |-> setitem(acc.new_agents, item.agent_id, int_score),
              total_diff |-> IF item.agent_id \notin DOMAIN old
                             THEN acc.total_diff + (int_score - thr)
                             ELSE acc.total_diff]

\* one iteration of the for loop over data
loop_body(acc, item, old, thr) ==
    IF acc.raised THEN acc
    ELSE IF ~item.dict THEN acc
    ELSE IF item.agent_id = "None" \/ item.kind = "None" THEN acc
    ELSE IF item.kind = "bad" THEN [acc EXCEPT !.raised = TRUE]
    ELSE LET int_score == round_half_up(times100(item.final_score))
         IN  [raised |-> FALSE,
              new_agents |-> setitem(acc.new_agents, item.agent_id, int_score),
              total_diff |-> IF item.agent_id \notin DOMAIN old
                             THEN acc.total_diff + (int_score - thr)
                             ELSE acc.total_diff]

RECURSIVE loop(_, _, _, _)
loop(acc, items, old, thr) ==
    IF items = <<>> THEN acc
    ELSE loop(loop_body(acc, Head(items), old, thr), Tail(items), old, thr)

\* an except clause that catches ValueError and OSError only
\* a handler that logs and raises again: the worker thread ends
except_clause_reraise(exc) == "raised"

except_clause_narrow(exc) == IF exc = "RequestException" THEN "raised" ELSE "sleep"

\* the except clause: the exception is printed and fetch_and_save returns
except_clause(exc) == "sleep"

\* append_log that writes no row for a total_diff of 0
append_log_nonzero(lines, needed, ts, diff) ==
    IF diff = 0 THEN lines
    ELSE (IF needed THEN lines \o <<Header>> ELSE lines)
            \o <<[hdr |-> FALSE, timestamp |-> ts, total_diff |-> diff]>>

\* append_log on a file opened with "w"
append_log_rewrite(lines, needed, ts, diff) ==
    (IF needed THEN <<Header>> ELSE <<>>)
        \o <<[hdr |-> FALSE, timestamp |-> ts, total_diff |-> diff]>>

\* rows written by append_log after a successful open
append_log(lines, needed, ts, diff) ==
    (IF needed THEN lines \o <<Header>> ELSE lines)
        \o <<[hdr |-> FALSE, timestamp |-> ts, total_diff |-> diff]>>

\* the snapshot merged into what the file held
dump_merge(file, agents) == [kind |-> "json", recs |-> file.recs \o agents]

\* open(OUTPUT_FILE, "w") drops what the file held, json.dump writes
\* new_agents.items()
dump(file, agents) == [kind |-> "json", recs |-> agents]

\* csv.DictReader over the log and the two lists index() builds from it:
\* the first line is taken as the field names, whatever it holds
index_read(file) ==
    IF ~file.exists \/ file.lines = <<>>
    THEN [route |-> "/", code |-> 200, timestamps |-> <<>>, diffs |-> <<>>,
          threshold_score |-> "None"]
    ELSE LET rows == Tail(file.lines)
         IN  IF Head(file.lines).hdr \/ rows = <<>>
             THEN [route |-> "/", code |-> 200,
                   timestamps |-> [i \in 1..Len(rows) |-> rows[i].timestamp],
                   diffs |-> [i \in 1..Len(rows) |-> rows[i].total_diff],
                   threshold_score |-> "None"]
             ELSE [route |-> "/", code |-> 500, timestamps |-> <<>>, diffs |-> <<>>,
                   threshold_score |-> "None"]

\* the variable never looked up
getenv_default(value, default) == default

\* os.getenv("THRESHOLD_SCORE", default)
getenv(value, default) == IF value = "None" THEN default ELSE value

-----------------------------------------------------------------------------
(* Initial states: a process started at some time, on a fresh directory or *)
(* on the files an earlier run left behind                                 *)

\* the process is started between two marks, in the last ten minutes of an hour
StartTimes == {55 * MinuteTicks + 1}
RequestTicks == {1}
Lateness == {0, 1}

EarlierSnapshot == [kind |-> "json", recs |-> <<[agent_id |-> "a", score |-> 1]>>]
EarlierLog == [exists |-> TRUE,
               lines |-> <<Header, [hdr |-> FALSE, timestamp |-> 0, total_diff |-> 1]>>]

NoLocals ==
    /\ data = <<>>
    /\ threshold = 0
    /\ existing = EmptyDict
    /\ new_agents = <<>>
    /\ total_diff = 0
    /\ timestamp = 0
    /\ header_needed = FALSE
    /\ sleep_sec = 0
    /\ e = "None"

Started ==
    /\ now \in StartTimes
    /\ pc = "cycle"
    /\ THRESHOLD_SCORE \in Env
    /\ NoLocals
    /\ result = "none"
    /\ start = [snap |-> OUTPUT_FILE, log |-> LOG_FILE]
    /\ previous = <<>>
    /\ same = FALSE
    /\ seen = DOMAIN load_existing_agents(OUTPUT_FILE)
    /\ cycles = 0
    /\ http = NoResponse
    /\ final_score = 0 /\ as_int = 0
    /\ began = now
    /\ env_at = [now |-> THRESHOLD_SCORE, before |-> THRESHOLD_SCORE]
    /\ restarted = FALSE
    /\ kept = [ok |-> OUTPUT_FILE.kind = "json",
               ids |-> {OUTPUT_FILE.recs[i].agent_id : i \in 1..Len(OUTPUT_FILE.recs)}]
    /\ restartLog = LOG_FILE

Init ==
    /\ \/ OUTPUT_FILE = Absent /\ LOG_FILE = NoLog
       \/ OUTPUT_FILE = EarlierSnapshot /\ LOG_FILE = EarlierLog
    /\ Started

-----------------------------------------------------------------------------
(* fetch_and_save, in the steps at which it touches the files *)

\* lines 45-70: the request, the threshold, the old snapshot and the loop
Fetch(bodies) ==
    /\ pc = "cycle"
    /\ cycles' = cycles + 1
    /\ start' = [snap |-> OUTPUT_FILE, log |-> LOG_FILE]
    /\ \E dur \in RequestTicks : now' = now + dur
    /\ \/ \* requests.get, raise_for_status or response.json() raises
          /\ data' = <<>>
          /\ same' = FALSE
          /\ threshold' = 0 /\ existing' = EmptyDict
          /\ new_agents' = <<>> /\ total_diff' = 0
          /\ e' = "RequestException"
          /\ result' = "failed"
          /\ pc' = except_clause("RequestException")
       \/ \E d \in bodies :
          LET text == getenv(THRESHOLD_SCORE, "0")
              old == load_existing_agents(OUTPUT_FILE)
          IN
          /\ data' = d
          /\ same' = (result = "saved" /\ d = previous)
          /\ IF text \notin DOMAIN IntText
             THEN /\ threshold' = 0 /\ existing' = EmptyDict
                  /\ new_agents' = <<>> /\ total_diff' = 0
                  /\ e' = "ValueError:threshold"
                  /\ result' = "failed"
                  /\ pc' = except_clause("ValueError:threshold")
             ELSE IF load_raises(OUTPUT_FILE)
             THEN /\ threshold' = IntText[text] /\ existing' = EmptyDict
                  /\ new_agents' = <<>> /\ total_diff' = 0
                  /\ e' = "UnicodeDecodeError"
                  /\ result' = "failed"
                  /\ pc' = except_clause("UnicodeDecodeError")
             ELSE LET r == loop([raised |-> FALSE, new_agents |-> <<>>, total_diff |-> 0],
                                d, old, IntText[text])
                  IN  /\ threshold' = IntText[text]
                      /\ existing' = old
                      /\ IF r.raised
                         THEN /\ new_agents' = <<>> /\ total_diff' = 0
                              /\ e' = "ValueError:score"
                              /\ result' = "failed"
                              /\ pc' = except_clause("ValueError:score")
                         ELSE /\ new_agents' = r.new_agents
                              /\ total_diff' = r.total_diff
                              /\ e' = "None"
                              /\ result' = "running"
                              /\ pc' = "write"
    /\ http' = NoResponse
    /\ began' = now
    /\ env_at' = [now |-> THRESHOLD_SCORE, before |-> env_at.now]
    /\ UNCHANGED <<THRESHOLD_SCORE, OUTPUT_FILE, LOG_FILE, timestamp, header_needed,
                   sleep_sec, previous, seen, rounding, restarts>>

\* lines 73-78: open(OUTPUT_FILE, "w") truncates, json.dump fills
WriteSnapshot ==
    /\ pc = "write"
    /\ \/ /\ OUTPUT_FILE' = dump(OUTPUT_FILE, new_agents)
          /\ pc' = "log"
          /\ UNCHANGED <<e, result>>
       \/ \* open raises: nothing was touched
          /\ UNCHANGED OUTPUT_FILE
          /\ e' = "OSError:open snapshot"
          /\ result' = "failed"
          /\ pc' = except_clause("OSError:open snapshot")
       \/ \* the write raises after the truncation: a proper prefix of a JSON
          \* array is left, which json.load rejects; a prefix that holds part
          \* of an identifier may end within a character (ensure_ascii=False)
          /\ OUTPUT_FILE' \in IF new_agents = <<>> THEN {Corrupt}
                                                  ELSE {Corrupt, Undecodable}
          /\ e' = "OSError:write snapshot"
          /\ result' = "failed"
          /\ pc' = except_clause("OSError:write snapshot")
    /\ http' = NoResponse
    /\ UNCHANGED <<now, THRESHOLD_SCORE, LOG_FILE, locals, timestamp, header_needed,
                   sleep_sec, history, seen, cycles,
                   rounding, began, env_at, restarts>>

\* lines 81, 35, 36: the timestamp, os.path.exists, open(LOG_FILE, "a")
AppendLogOpen ==
    /\ pc = "log"
    /\ timestamp' = strftime(now)
    /\ header_needed' = ~LOG_FILE.exists
    /\ \/ /\ LOG_FILE' = [LOG_FILE EXCEPT !.exists = TRUE]
          /\ pc' = "append"
          /\ UNCHANGED <<e, result>>
       \/ /\ LOG_FILE' = LOG_FILE
          /\ e' = "OSError:open log"
          /\ result' = "failed"
          /\ pc' = except_clause("OSError:open log")
    /\ http' = NoResponse
    /\ UNCHANGED <<now, THRESHOLD_SCORE, OUTPUT_FILE, locals, sleep_sec, history,
                   seen, cycles,
                   rounding, began, env_at, restarts>>

\* lines 37-40: the header when needed, then the row
AppendLogWrite ==
    /\ pc = "append"
    /\ \/ /\ LOG_FILE' = [LOG_FILE EXCEPT
                            !.lines = append_log(@, header_needed, timestamp, total_diff)]
          /\ e' = e
          /\ result' = "saved"
          /\ pc' = "sleep"
       \/ \* the write raises before anything reached the file
          /\ LOG_FILE' = LOG_FILE
          /\ e' = "OSError:write log"
          /\ result' = "failed"
          /\ pc' = except_clause("OSError:write log")
       \/ \* the write raises after the header row
          /\ header_needed
          /\ LOG_FILE' = [LOG_FILE EXCEPT !.lines = @ \o <<Header>>]
          /\ e' = "OSError:write log"
          /\ result' = "failed"
          /\ pc' = except_clause("OSError:write log")
    /\ http' = NoResponse
    /\ UNCHANGED <<now, THRESHOLD_SCORE, OUTPUT_FILE, locals, timestamp, header_needed,
                   sleep_sec, history, seen, cycles,
                   rounding, began, env_at, restarts>>

-----------------------------------------------------------------------------
(* background_task *)

\* line 106, fetch_and_save having returned: its locals are gone
ComputeSleep ==
    /\ pc = "sleep"
    /\ sleep_sec' = sleep_until_next_10min(now)
    /\ pc' = "sleeping"
    /\ data' = <<>> /\ threshold' = 0 /\ existing' = EmptyDict
    /\ new_agents' = <<>> /\ total_diff' = 0
    /\ timestamp' = 0 /\ header_needed' = FALSE /\ e' = "None"
    /\ start' = [snap |-> OUTPUT_FILE, log |-> LOG_FILE]
    /\ previous' = IF result = "saved" THEN data ELSE <<>>
    /\ same' = FALSE
    /\ seen' = seen \cup DOMAIN load_existing_agents(OUTPUT_FILE)
    /\ http' = NoResponse
    /\ restarted' = (restarted /\ result # "saved")
    /\ kept' = IF result = "saved"
               THEN [ok |-> TRUE,
                     ids |-> {OUTPUT_FILE.recs[i].agent_id : i \in 1..Len(OUTPUT_FILE.recs)}]
               ELSE kept
    /\ UNCHANGED <<now, THRESHOLD_SCORE, OUTPUT_FILE, LOG_FILE, result, cycles,
                   rounding, began, env_at, restartLog>>

\* line 108, then back to line 105; time.sleep returns no earlier than asked
Sleep ==
    /\ pc = "sleeping"
    /\ cycles < MaxCycles
    /\ \E late \in Lateness : now' = now + sleep_sec + late
    /\ pc' = "cycle"
    /\ http' = NoResponse
    /\ UNCHANGED <<THRESHOLD_SCORE, OUTPUT_FILE, LOG_FILE, locals, timestamp,
                   header_needed, sleep_sec, e, result, history, seen, cycles,
                   rounding, began, env_at, restarts>>

-----------------------------------------------------------------------------
(* The Flask routes *)

\* a handler that opens the log for appending, which creates the file
index_creates_log ==
    /\ http' = index_read(LOG_FILE)
    /\ LOG_FILE' = [LOG_FILE EXCEPT !.exists = TRUE]
    /\ UNCHANGED <<now, pc, THRESHOLD_SCORE, OUTPUT_FILE, locals, timestamp,
                   header_needed, sleep_sec, e, result, history, seen, cycles,
                   rounding, began, env_at, restarts>>

index ==
    /\ http' = index_read(LOG_FILE)
    /\ UNCHANGED <<now, pc, THRESHOLD_SCORE, OUTPUT_FILE, LOG_FILE, locals, timestamp,
                   header_needed, sleep_sec, e, result, history, seen, cycles,
                   rounding, began, env_at, restarts>>

status ==
    /\ http' = [route |-> "/status", code |-> 200, timestamps |-> <<>>, diffs |-> <<>>,
                threshold_score |-> getenv(THRESHOLD_SCORE, "not set")]
    /\ UNCHANGED <<now, pc, THRESHOLD_SCORE, OUTPUT_FILE, LOG_FILE, locals, timestamp,
                   header_needed, sleep_sec, e, result, history, seen, cycles,
                   rounding, began, env_at, restarts>>

Next ==
    \/ Fetch(Replies)
    \/ WriteSnapshot
    \/ AppendLogOpen
    \/ AppendLogWrite
    \/ ComputeSleep
    \/ Sleep
    \/ index
    \/ status

Spec == Init /\ [][Next]_vars

-----------------------------------------------------------------------------
(* One call of fetch_and_save, on any response, over the files an earlier  *)
(* run can have left                                                       *)

Persisted ==
    { <<Absent, NoLog>>,
      <<EarlierSnapshot, EarlierLog>>,
      \* the last cycle of the earlier run could not write its snapshot
      <<Corrupt, EarlierLog>>,
      <<Undecodable, EarlierLog>>,
      \* the only cycle of the earlier run could not write its log row
      <<EarlierSnapshot, [exists |-> TRUE, lines |-> <<>>]>>,
      <<[kind |-> "json", recs |-> <<[agent_id |-> "b", score |-> 3],
                                     [agent_id |-> "a", score |-> 1]>>],
        [exists |-> TRUE,
         lines |-> <<Header, [hdr |-> FALSE, timestamp |-> 0, total_diff |-> 1],
                             [hdr |-> FALSE, timestamp |-> 600, total_diff |-> 3]>>]>> }

InitCycle ==
    /\ \E f \in Persisted : OUTPUT_FILE = f[1] /\ LOG_FILE = f[2]
    /\ Started

NextCycle ==
    \/ Fetch(Responses)
    \/ WriteSnapshot
    \/ AppendLogOpen
    \/ AppendLogWrite

SpecCycle == InitCycle /\ [][NextCycle]_vars

-----------------------------------------------------------------------------
(* sleep_until_next_10min on its own, at every instant of a window *)

InitSleep ==
    /\ now \in 0..(WindowHours * HourTicks - 1)
    /\ pc = "sleep"
    /\ THRESHOLD_SCORE = "None"
    /\ OUTPUT_FILE = Absent /\ LOG_FILE = NoLog
    /\ NoLocals
    /\ result = "none"
    /\ start = [snap |-> OUTPUT_FILE, log |-> LOG_FILE]
    /\ previous = <<>>
    /\ same = FALSE
    /\ seen = {}
    /\ cycles = 0
    /\ http = NoResponse
    /\ final_score = 0 /\ as_int = 0
    /\ began = now
    /\ env_at = [now |-> THRESHOLD_SCORE, before |-> THRESHOLD_SCORE]
    /\ restarted = FALSE
    /\ kept = [ok |-> FALSE, ids |-> {}]
    /\ restartLog = LOG_FILE

NextSleep == ComputeSleep

SpecSleep == InitSleep /\ [][NextSleep]_vars

-----------------------------------------------------------------------------
(* Line 65 alone, on every score with three decimals from 0 to MaxScore    *)
(* thousandths                                                             *)

InitRound ==
    /\ now = 0
    /\ pc = "round"
    /\ THRESHOLD_SCORE = "None"
    /\ OUTPUT_FILE = Absent /\ LOG_FILE = NoLog
    /\ NoLocals
    /\ result = "none"
    /\ start = [snap |-> OUTPUT_FILE, log |-> LOG_FILE]
    /\ previous = <<>>
    /\ same = FALSE
    /\ seen = {}
    /\ cycles = 0
    /\ http = NoResponse
    /\ final_score \in 0..MaxScore
    /\ as_int = 0
    /\ began = now
    /\ env_at = [now |-> THRESHOLD_SCORE, before |-> THRESHOLD_SCORE]
    /\ restarted = FALSE
    /\ kept = [ok |-> FALSE, ids |-> {}]
    /\ restartLog = LOG_FILE

\* line 65
Round ==
    /\ pc = "round"
    /\ as_int' = round_half_up(times100(final_score))
    /\ pc' = "rounded"
    /\ UNCHANGED <<now, THRESHOLD_SCORE, OUTPUT_FILE, LOG_FILE, locals, timestamp,
                   header_needed, sleep_sec, e, result, history, seen, cycles, http,
                   final_score, began, env_at, restarts>>

NextRound == Round

SpecRound == InitRound /\ [][NextRound]_vars

-----------------------------------------------------------------------------
(* The worker followed to the end of its run.  The thread started at line  *)
(* 180 is scheduled again and again, requests.get returns or raises within *)
(* its timeout and time.sleep returns: a step of the worker that stays     *)
(* possible is taken.  Requests are served or not, at any time.            *)

\* an empty response, one entity, another, and an element whose score raises
Few == {<<>>,
        <<[dict |-> TRUE, agent_id |-> "a", kind |-> "num", final_score |-> 25]>>,
        <<[dict |-> TRUE, agent_id |-> "b", kind |-> "num", final_score |-> 5]>>,
        <<BadScore>>}

\* lines 102-108: the steps of the worker's thread
background_task(bodies) ==
    \/ Fetch(bodies)
    \/ WriteSnapshot
    \/ AppendLogOpen
    \/ AppendLogWrite
    \/ ComputeSleep
    \/ Sleep

NextLive ==
    \/ background_task(Few)
    \/ index
    \/ status

SpecLive == Init /\ [][NextLive]_vars /\ WF_vars(background_task(Few))

-----------------------------------------------------------------------------
(* The process stopped and started again.  The worker is a daemon thread   *)
(* (line 179): it ends with the process, here while it sleeps between two  *)
(* cycles.  What the process held in memory is lost, the files stay.       *)

\* ticks between the end of one process and the start of the next
Downtime == {1}

\* lines 177-183, run again
Restart ==
    /\ pc = "sleeping"
    /\ cycles < MaxCycles
    /\ \E down \in Downtime : now' = now + down
    /\ pc' = "cycle"
    /\ THRESHOLD_SCORE' \in Env
    /\ sleep_sec' = 0
    /\ result' = "none"
    /\ previous' = <<>>
    /\ restarted' = TRUE
    /\ restartLog' = LOG_FILE
    /\ http' = NoResponse
    /\ UNCHANGED <<OUTPUT_FILE, LOG_FILE, locals, timestamp, header_needed, e, start,
                   same, seen, cycles, rounding, began, env_at, kept>>

NextRestart ==
    \/ background_task(Replies)
    \/ Restart

SpecRestart == Init /\ [][NextRestart]_vars

-----------------------------------------------------------------------------
(* The environment of the running process changed.  Nothing in app.py      *)
(* assigns os.environ; the step stands for code in the same process that   *)
(* does, at any time.  os.getenv at line 50 reads the mapping at each call. *)

SetEnv ==
    /\ THRESHOLD_SCORE' \in Env \ {THRESHOLD_SCORE}
    /\ http' = NoResponse
    /\ UNCHANGED <<now, pc, OUTPUT_FILE, LOG_FILE, locals, timestamp, header_needed,
                   sleep_sec, e, result, history, seen, cycles, rounding, began,
                   env_at, restarts>>

NextEnv ==
    \/ background_task(Few)
    \/ SetEnv

SpecEnv == Init /\ [][NextEnv]_vars

-----------------------------------------------------------------------------
(* Vocabulary of the properties *)

\* fetch_and_save has just returned
Returned == pc = "sleep" /\ result \in {"saved", "failed"}
Saved == pc = "sleep" /\ result = "saved"
Failed == pc = "sleep" /\ result = "failed"

\* elements that are objects carrying both fields
HasBoth(item) == item.dict /\ item.agent_id # "None" /\ item.kind # "None"
ValidAt(d) == {i \in 1..Len(d) : HasBoth(d[i])}
ValidIds(d) == {d[i].agent_id : i \in ValidAt(d)}
DistinctIds(d) == \A i, j \in ValidAt(d) : d[i].agent_id = d[j].agent_id => i = j
LastOf(d, a) == CHOOSE i \in ValidAt(d) :
                   /\ d[i].agent_id = a
                   /\ \A j \in ValidAt(d) : d[j].agent_id = a => j <= i

\* the integer nearest to score * 100, the larger one on a tie
Rounded(score) == CHOOSE n \in 0..(score + 1) :
                     1000 * n - 500 <= 100 * score /\ 100 * score < 1000 * n + 500
RoundedScore(d, a) == Rounded(d[LastOf(d, a)].final_score)

SnapIds(file) == {file.recs[i].agent_id : i \in 1..Len(file.recs)}
SnapScore(file, a) == file.recs[CHOOSE i \in 1..Len(file.recs) : file.recs[i].agent_id = a].score

RECURSIVE SumNew(_, _, _)
SumNew(S, d, thr) ==
    IF S = {} THEN 0
    ELSE LET a == CHOOSE x \in S : TRUE
         IN  (RoundedScore(d, a) - thr) + SumNew(S \ {a}, d, thr)

Entries(file) == Cardinality({i \in 1..Len(file.lines) : ~file.lines[i].hdr})
Appended == LOG_FILE.lines[Len(LOG_FILE.lines)]
TenMinutes == 10 * MinuteTicks

\* the threshold a value of the variable stands for: 0 when it is not set
ThresholdOf(value) == IF value = "3" THEN 3 ELSE 0
IsPrefix(s, t) == Len(s) <= Len(t) /\ \A i \in 1..Len(s) : s[i] = t[i]

-----------------------------------------------------------------------------
\* C1: after a cycle that saved, on a response whose valid elements have
\* pairwise distinct identifiers, the total_diff of the appended row is the
\* sum of (rounded score - threshold) over the identifiers of the response
\* that the snapshot at the start of the cycle did not hold.
C1_TotalDiffOverNewIds ==
    (Saved /\ DistinctIds(data)) =>
        /\ ~Appended.hdr
        /\ Appended.total_diff =
               SumNew(ValidIds(data) \ SnapIds(start.snap), data, threshold)

\* a saved cycle with a nonzero threshold, one new identifier and one
\* identifier already in the snapshot under another score
C1_Witness ==
    /\ Saved /\ DistinctIds(data) /\ threshold # 0
    /\ \E a \in ValidIds(data) \ SnapIds(start.snap) :
           Appended.total_diff = RoundedScore(data, a) - threshold
    /\ \E a \in ValidIds(data) \cap SnapIds(start.snap) :
           SnapScore(start.snap, a) # RoundedScore(data, a)

\* C2: a cycle that raised leaves agent_id.json and diff_log.csv exactly as
\* they were when the cycle began.
C2_FailedCycleLeavesFiles ==
    Failed => (OUTPUT_FILE = start.snap /\ LOG_FILE = start.log)

\* C3: when the upstream call fails, fetch_and_save returns to its caller
\* and both files are what they were when the cycle began.
C3_UpstreamFailureIsNoOp ==
    (e = "RequestException") =>
        /\ pc = "sleep"
        /\ result = "failed"
        /\ OUTPUT_FILE = start.snap
        /\ LOG_FILE = start.log

\* an upstream failure over files that hold a snapshot and log rows
C3_Witness ==
    /\ e = "RequestException" /\ pc = "sleep"
    /\ OUTPUT_FILE.kind = "json" /\ OUTPUT_FILE.recs # <<>>
    /\ Entries(LOG_FILE) > 0

\* C4: when fetch_and_save returns, the log holds one row more than when the
\* cycle began if the cycle saved, and as many rows if it raised; a saved
\* cycle without any new identifier still appends its row, of total_diff 0.
C4_OneRowPerSavedCycle ==
    Returned =>
        /\ Entries(LOG_FILE) = Entries(start.log) + (IF result = "saved" THEN 1 ELSE 0)
        /\ (result = "saved" /\ ValidIds(data) \subseteq SnapIds(start.snap))
              => (~Appended.hdr /\ Appended.total_diff = 0)

\* the second saved cycle of a run, with agents in the response but none new
C4_Witness ==
    /\ Saved /\ cycles = 2
    /\ ValidIds(data) # {} /\ ValidIds(data) \subseteq SnapIds(start.snap)
    /\ threshold # 0
    /\ Entries(start.log) >= 1 /\ Entries(LOG_FILE) = Entries(start.log) + 1

\* C5: a saved cycle that got the same response as the saved cycle right
\* before it appends total_diff 0 and writes the snapshot that was there.
C5_RepeatedResponse ==
    (Saved /\ same) =>
        /\ ~Appended.hdr
        /\ Appended.total_diff = 0
        /\ OUTPUT_FILE = start.snap

\* two saved cycles in a row on the same non-empty response, threshold not 0
C5_Witness ==
    /\ Saved /\ same /\ data # <<>> /\ data = previous
    /\ threshold # 0
    /\ \E a \in ValidIds(data) : RoundedScore(data, a) # threshold

\* C6: elements that are no object or lack agent_id or final_score are
\* skipped: the saved snapshot holds exactly the identifiers of the other
\* elements with their rounded scores, the appended total_diff sums over the
\* new ones among these, and a conversion error is never due to a skipped
\* element.
C6_MalformedElementsSkipped ==
    /\ Saved =>
          /\ OUTPUT_FILE.kind = "json"
          /\ SnapIds(OUTPUT_FILE) = ValidIds(data)
          /\ \A a \in ValidIds(data) : SnapScore(OUTPUT_FILE, a) = RoundedScore(data, a)
          /\ DistinctIds(data) =>
                Appended.total_diff =
                   SumNew(ValidIds(data) \ SnapIds(start.snap), data, threshold)
          /\ Entries(LOG_FILE) = Entries(start.log) + 1
    /\ (pc = "sleep" /\ e = "ValueError:score") =>
          \E i \in ValidAt(data) : data[i].kind = "bad"

\* a saved cycle whose response held a skipped element that names an agent
\* and a valid element of another agent
C6_Witness ==
    /\ Saved
    /\ \E i, j \in 1..Len(data) :
          /\ ~HasBoth(data[i]) /\ data[i].agent_id = "a"
          /\ HasBoth(data[j]) /\ data[j].agent_id = "b"
    /\ SnapIds(OUTPUT_FILE) = {"b"}
    /\ "a" \in SnapIds(start.snap)

\* C7: after a cycle that saved, the snapshot holds exactly the identifiers
\* of the valid elements of the response, each once and with its rounded
\* score, whatever the snapshot held before; an identifier that an earlier
\* snapshot held and the snapshot at the start of the cycle did not is
\* counted as new.
C7_SnapshotReplaced ==
    Saved =>
        /\ OUTPUT_FILE.kind = "json"
        /\ SnapIds(OUTPUT_FILE) = ValidIds(data)
        /\ Len(OUTPUT_FILE.recs) = Cardinality(ValidIds(data))
        /\ \A a \in ValidIds(data) : SnapScore(OUTPUT_FILE, a) = RoundedScore(data, a)
        /\ \A a \in (ValidIds(data) \cap seen) \ SnapIds(start.snap) :
              /\ a \notin DOMAIN existing
              /\ DistinctIds(data) =>
                    Appended.total_diff =
                       (RoundedScore(data, a) - threshold)
                       + SumNew((ValidIds(data) \ SnapIds(start.snap)) \ {a}, data, threshold)

\* an agent of the first snapshot, left out by a saved cycle, is back in the
\* response of the next saved cycle, which drops another agent
C7_Witness ==
    /\ Saved /\ cycles = 2
    /\ start.snap.kind = "json" /\ previous # <<>>
    /\ \E a \in (ValidIds(data) \cap seen) \ (SnapIds(start.snap) \cup ValidIds(previous)) :
          Appended.total_diff = RoundedScore(data, a) - threshold
    /\ SnapIds(start.snap) \ SnapIds(OUTPUT_FILE) # {}

\* C8: every step leaves the rows of diff_log.csv in place and only adds
\* rows after them; the file, once there, stays.
C8_LogAppendOnly ==
    [][/\ IsPrefix(LOG_FILE.lines, LOG_FILE'.lines)
       /\ LOG_FILE.exists => LOG_FILE'.exists]_vars

\* the log of an earlier run, two cycles of this run appended after it, read
\* by GET /
C8_Witness ==
    /\ IsPrefix(EarlierLog.lines, LOG_FILE.lines)
    /\ Entries(LOG_FILE) = Entries(EarlierLog) + 2
    /\ http.route = "/" /\ Len(http.diffs) = Entries(LOG_FILE)

\* C9: the delay computed at an instant leads to the first instant after it
\* that is a whole multiple of ten minutes, so it is positive.
C9_NextMarkStrictlyAfter ==
    (pc = "sleeping") =>
        /\ sleep_sec > 0
        /\ now + sleep_sec = ((now \div (600 * TicksPerSec)) + 1) * (600 * TicksPerSec)

\* computed in the last ten minutes of an hour, off the second: the mark is
\* minute 0 of the next hour
C9_Witness ==
    /\ pc = "sleeping"
    /\ minute(now) >= 50 /\ now % TicksPerSec # 0
    /\ (now + sleep_sec) % HourTicks = 0
    /\ sleep_sec < 600 * TicksPerSec

\* C10 as stated: on a ten-minute mark the delay is at least 0 and less than
\* 600 seconds.
C10_OnMarkLessThanInterval ==
    (pc = "sleeping" /\ now % (600 * TicksPerSec) = 0) =>
        (sleep_sec >= 0 /\ sleep_sec < 600 * TicksPerSec)

\* C10, amended: on a ten-minute mark the delay is exactly 600 seconds.
C10_OnMarkFullInterval ==
    (pc = "sleeping" /\ now % (600 * TicksPerSec) = 0) =>
        sleep_sec = 600 * TicksPerSec

\* computed at HH:30:00 sharp
C10_Witness ==
    /\ pc = "sleeping"
    /\ minute(now) = 30 /\ now % MinuteTicks = 0
    /\ sleep_sec = 600 * TicksPerSec

\* C11: no failure ends the loop.  After every cycle that returned, saved or
\* failed, the worker sleeps to the next ten-minute mark and starts another
\* cycle there, as long as the run has cycles left; so every cycle of the
\* run is started in the end.
C11_LoopSurvivesFailure ==
    /\ \A k \in 1..(MaxCycles - 1) :
           (Returned /\ cycles = k)
               ~> (/\ cycles = k + 1
                   /\ \E late \in Lateness : (began - late) % TenMinutes = 0)
    /\ <>(cycles = MaxCycles)

\* the worker woke up on a mark after a cycle that failed
C11_Witness ==
    /\ pc = "cycle" /\ cycles >= 1 /\ result = "failed"
    /\ \E late \in Lateness : (now - late) % TenMinutes = 0

\* C12: every cycle is started at a time that is an aligned ten-minute
\* mark, and a cycle about to start is in a later ten-minute interval than
\* the cycle before it.
C12_EveryCycleOnMark ==
    /\ (cycles >= 1) => (began % TenMinutes = 0)
    /\ (pc = "cycle" /\ cycles >= 1) => (now \div TenMinutes > began \div TenMinutes)

\* C12 (amended): the first cycle is started when the process starts,
\* whatever the time.  Every later cycle is started when the sleep computed
\* after the cycle before it has elapsed: on the first ten-minute mark after
\* that cycle returned, or as much later as time.sleep returned late, never
\* before the mark; so it is in a later ten-minute interval than the cycle
\* before it.
C12_LaterCyclesOnMark ==
    /\ (cycles >= 2) => \E late \in Lateness : (began - late) % TenMinutes = 0
    /\ (pc = "cycle" /\ cycles >= 1) =>
           /\ \E late \in Lateness :
                  LET woke == now - late
                      returned == woke - sleep_sec
                  IN  /\ returned >= began
                      /\ woke = (returned \div TenMinutes + 1) * TenMinutes
           /\ now \div TenMinutes > began \div TenMinutes

\* a second cycle about to start on a mark, some time after it, following a
\* first cycle that was started between two marks
C12_Witness ==
    /\ pc = "cycle" /\ cycles = 1
    /\ began % TenMinutes # 0
    /\ now % TenMinutes \in Lateness \ {0}

\* C13: the files outlive the process.  The log holds every line it held
\* when the process was last started, and the first cycle that saves after
\* a restart treats as new exactly the identifiers of its response that the
\* snapshot written by the last saved cycle before it did not hold.
C13_RestartKeepsState ==
    /\ IsPrefix(restartLog.lines, LOG_FILE.lines)
    /\ (Saved /\ restarted /\ kept.ok) =>
           (ValidIds(data) \ DOMAIN existing) = (ValidIds(data) \ kept.ids)

\* C14: GET / never answers with an error, whatever step of a cycle it
\* falls between: it answers with the rows appended to the log so far, in
\* the order they were appended, and with empty series while there is no
\* log file.
C14_IndexNeverFails ==
    (http.route = "/") =>
        LET rows == SelectSeq(LOG_FILE.lines, LAMBDA l : ~l.hdr)
        IN  /\ http.code = 200
            /\ http.timestamps = [i \in 1..Len(rows) |-> rows[i].timestamp]
            /\ http.diffs = [i \in 1..Len(rows) |-> rows[i].total_diff]
            /\ ~LOG_FILE.exists => http.diffs = <<>>

\* C15: a step that serves GET / or GET /status leaves agent_id.json,
\* diff_log.csv and THRESHOLD_SCORE as they were, wherever in a cycle the
\* worker is.
C15_RequestsWriteNothing ==
    [][(http'.route \in {"/", "/status"}) =>
           UNCHANGED <<OUTPUT_FILE, LOG_FILE, THRESHOLD_SCORE>>]_vars

\* GET / served between the worker's opening of the log and its write,
\* over a snapshot just replaced
C15_Witness ==
    /\ http.route = "/" /\ http.code = 200
    /\ pc = "append"
    /\ OUTPUT_FILE # start.snap

\* C16: for a score with three decimals, the integer that line 65 computes
\* is the integer nearest to a hundred times the score, and the larger of
\* the two when the product lies halfway.
C16_NearestIntegerTiesUp ==
    (pc = "rounded") => (as_int = Rounded(final_score))

C18_DuplicateCountedOnce ==
    (Saved /\ ~DistinctIds(data)) =>
        /\ OUTPUT_FILE.kind = "json"
        /\ \A a \in ValidIds(data) : SnapScore(OUTPUT_FILE, a) = RoundedScore(data, a)
        /\ Appended.total_diff =
               SumNew(ValidIds(data) \ SnapIds(start.snap), data, threshold)

=============================================================================
